---- MODULE Spec2Model ----
(***************************************************************************)
(* A model of StockAnalyzer (src/main.py): the retrying fetch wrapper, the *)
(* trading-day gate, candidate selection, the settlement rules, and the    *)
(* persistence of the watch list (care.json), the settlement ledger        *)
(* (result.json) and the report (result.md).                               *)
(*                                                                         *)
(* Numbers are integers.  A pandas NaN and Python's None are two integers  *)
(* outside the range of every price, ratio and change; arithmetic and      *)
(* comparisons go through Sub, Gt and Lt, which treat NaN as IEEE does.    *)
(* A name is a sequence of one-character strings.                          *)
(***************************************************************************)
EXTENDS Integers, Sequences, FiniteSets, TLC

VARIABLES careFile, ledgerFile, reportFile, clock, ioFaulted, log, fetch, eval, select

vars == <<careFile, ledgerFile, reportFile, clock, ioFaulted, log, fetch, eval, select>>

\* ---------------------------------------------------------------- values

NaN == -1000
None == -1001

\* Python truthiness of a number or None: `if highest_price:`.
Truthy(x) == x # None /\ x # 0

Gt(a, b) == a # NaN /\ b # NaN /\ a > b
Lt(a, b) == a # NaN /\ b # NaN /\ a < b
Sub(a, b) == IF a = NaN \/ b = NaN THEN NaN ELSE a - b

\* A missing (NaN) name.
NanName == <<"nan">>

\* str.contains("ST", na=False): a missing name does not contain it.
ContainsST(name) ==
    /\ name # NanName
    /\ \E i \in 1..(Len(name) - 1) : name[i] = "S" /\ name[i + 1] = "T"

\* ---------------------------------------------------------------- fetch

TopN == 5
DefaultMaxRetries == 3
DefaultRetryDelay == 25

SupportedMethods == {"trade_calendar", "stock_spot", "main_fund_flow"}

\* What one upstream call does: it raises, returns None, or returns a table.
\* The value the wrapper returns is such a record too, of kind "data", or Null.
Raise == [kind |-> "raise", data |-> <<>>]
ReturnsNone == [kind |-> "none", data |-> <<>>]
Data(d) == [kind |-> "data", data |-> d]
Null == [kind |-> "null", data |-> <<>>]

\* A returned None makes len(data) raise inside the try block, which is
\* handled like a raise of the call itself.
AttemptFails(o) == o.kind = "raise" \/ o.kind = "none"

\* FetchLoop sleeping after every failed attempt, the last one included.
RECURSIVE FetchLoop_SleepsAfterLast(_, _, _, _, _, _, _)
FetchLoop_SleepsAfterLast(method_name, max_retries, retry_delay, upstream, attempt, calls, slept) ==
    IF attempt >= max_retries
    THEN [result |-> Null, calls |-> calls, slept |-> slept]
    ELSE IF method_name \notin SupportedMethods
    THEN [result |-> Null, calls |-> calls, slept |-> slept]
    ELSE IF ~AttemptFails(upstream[attempt + 1])
    THEN [result |-> upstream[attempt + 1], calls |-> calls + 1, slept |-> slept]
    ELSE FetchLoop_SleepsAfterLast(method_name, max_retries, retry_delay, upstream,
                                   attempt + 1, calls + 1, slept + retry_delay)

RECURSIVE FetchLoop(_, _, _, _, _, _, _)
FetchLoop(method_name, max_retries, retry_delay, upstream, attempt, calls, slept) ==
    IF attempt >= max_retries
    THEN [result |-> Null, calls |-> calls, slept |-> slept]
    ELSE IF method_name \notin SupportedMethods
    THEN [result |-> Null, calls |-> calls, slept |-> slept]
    ELSE IF ~AttemptFails(upstream[attempt + 1])
    THEN [result |-> upstream[attempt + 1], calls |-> calls + 1, slept |-> slept]
    ELSE FetchLoop(method_name, max_retries, retry_delay, upstream, attempt + 1,
                   calls + 1,
                   IF attempt < max_retries - 1 THEN slept + retry_delay ELSE slept)

fetch_data_by_ak(method_name, max_retries, retry_delay, upstream) ==
    FetchLoop(method_name, max_retries, retry_delay, upstream, 0, 0, 0)

\* ------------------------------------------------------- pandas helpers

\* df[df['代码'] == code]: the rows with this code, in table order.
RowsWithCode(df, code) == SelectSeq(df, LAMBDA r : r.code = code)

RemoveAt(s, i) == SubSeq(s, 1, i - 1) \o SubSeq(s, i + 1, Len(s))

\* df.head(n)
Head_n(s, n) == SubSeq(s, 1, IF Len(s) < n THEN Len(s) ELSE n)

\* --------------------------------------------------- candidate selection

\* The boolean mask of get_main_fund_flow.
Qualifies(r) ==
    /\ r.price # NaN
    /\ Gt(r.ratio, 0)
    /\ ~ContainsST(r.name)
    /\ Lt(r.change, 0)

FilterRows(df) == SelectSeq(df, Qualifies)

MaxRatio(s) == CHOOSE m \in {s[i].ratio : i \in 1..Len(s)} :
                   \A i \in 1..Len(s) : s[i].ratio <= m

\* sort_values(by=ratio, ascending=False) with the default, unstable sort:
\* every order of the rows that is non-increasing in the ratio.  It is
\* applied to the filtered rows only, whose ratios are all numbers.
RECURSIVE SortValuesDesc(_)
SortValuesDesc(s) ==
    IF s = <<>> THEN {<<>>}
    ELSE LET m == MaxRatio(s)
         IN  UNION { { <<s[i]>> \o t : t \in SortValuesDesc(RemoveAt(s, i)) } :
                     i \in {j \in 1..Len(s) : s[j].ratio = m} }

\* The values get_main_fund_flow can return as result_df for the table df
\* (the second component of its result is df itself).
get_main_fund_flow(df) == SortValuesDesc(FilterRows(df))

CodesOf(rows) == [i \in 1..Len(rows) |-> rows[i].code]

\* top_5_stocks without the guard on the number of rows.
top_5_stocks_NoMinimum(result_df) == CodesOf(Head_n(result_df, TopN))

\* result_df.head(5)['代码'].tolist() if len(result_df) >= 5 else []
top_5_stocks(result_df) ==
    IF Len(result_df) >= TopN THEN CodesOf(Head_n(result_df, TopN)) ELSE <<>>

\* ----------------------------------------------------- settlement rules

\* The day-high of the first market-snapshot row with this code, else None.
HighestPrice(stock_data, stock_code) ==
    LET stock_all_data == RowsWithCode(stock_data, stock_code)
    IN  IF stock_all_data # <<>> THEN stock_all_data[1].high ELSE None

\* FiredRule with rule 3 tested first.
FiredRule_Rule3First(main_net_ratio, today_change) ==
    IF Gt(today_change, 0) /\ Lt(main_net_ratio, 0) THEN 3
    ELSE IF Lt(main_net_ratio, -5) THEN 1
    ELSE IF Gt(today_change, 10) THEN 2
    ELSE 4

\* The rule of the if/elif chain that fires: 1, 2, 3, or 4 (keep watching).
FiredRule(main_net_ratio, today_change) ==
    IF Lt(main_net_ratio, -5) THEN 1
    ELSE IF Gt(today_change, 10) THEN 2
    ELSE IF Gt(today_change, 0) /\ Lt(main_net_ratio, 0) THEN 3
    ELSE 4

\* ProfitWithOverride comparing the day-high with the current price.
ProfitWithOverride_AgainstCurrent(current_price, buy_price, highest_price) ==
    IF Truthy(highest_price) /\ Gt(highest_price, current_price)
    THEN 0
    ELSE Sub(current_price, buy_price)

\* profit_loss of rules 1 and 3: break-even once the day-high exceeded cost.
ProfitWithOverride(current_price, buy_price, highest_price) ==
    IF Truthy(highest_price) /\ Gt(highest_price, buy_price)
    THEN 0
    ELSE Sub(current_price, buy_price)

ProfitLoss(rule, current_price, buy_price, highest_price) ==
    IF rule = 2
    THEN Sub(current_price, buy_price)
    ELSE ProfitWithOverride(current_price, buy_price, highest_price)

\* The f-string of each rule, as its template and the values it interpolates
\* (all three interpolate main_net_ratio).
Remark(rule, main_net_ratio, today_change) ==
    CASE rule = 1 -> <<"ratio below -5, sell", main_net_ratio>>
      [] rule = 2 -> <<"change above 10, sell", main_net_ratio>>
      [] rule = 3 -> <<"change above 0 and ratio below 0, sell",
                       main_net_ratio, main_net_ratio>>

\* SettledStock with the current price recorded as the buy price: the slip
\* the conservation property must detect.
SettledStock_BuyAtCurrent(stock, row, rule, highest_price) ==
    [code |-> stock.code,
     name |-> row.name,
     buy_price |-> row.price,
     start_time |-> stock.start_time,
     current_price |-> row.price,
     main_net_ratio |-> row.ratio,
     today_change |-> row.change,
     profit_loss |-> ProfitLoss(rule, row.price, stock.buy_price, highest_price),
     remark |-> Remark(rule, row.ratio, row.change)]

SettledStock(stock, row, rule, highest_price) ==
    [code |-> stock.code,
     name |-> row.name,
     buy_price |-> stock.buy_price,
     start_time |-> stock.start_time,
     current_price |-> row.price,
     main_net_ratio |-> row.ratio,
     today_change |-> row.change,
     profit_loss |-> ProfitLoss(rule, row.price, stock.buy_price, highest_price),
     remark |-> Remark(rule, row.ratio, row.change)]

\* Rule 4: the entry with its four refreshed fields.
Refreshed(stock, row) ==
    [stock EXCEPT !.current_price = row.price,
                  !.main_net_ratio = row.ratio,
                  !.today_change = row.change,
                  !.name = row.name]

\* CarriedForward with the price refreshed from the market snapshot when the
\* code is listed there: the slip the carry-forward property must detect.
CarriedForward_Refreshed(stock, stock_data) ==
    LET stock_all_data == RowsWithCode(stock_data, stock.code)
    IN  IF stock_all_data # <<>>
        THEN [stock EXCEPT !.current_price = stock_all_data[1].price]
        ELSE stock

\* The entry appended when the code is not in the fund-flow table.
CarriedForward(stock, stock_data) == stock

\* One iteration of the loop over care_stocks: what it appends, and where.
EvaluateStock(stock, main_fund_flow_df, stock_data) ==
    LET stock_flow_data == RowsWithCode(main_fund_flow_df, stock.code)
        highest_price == HighestPrice(stock_data, stock.code)
    IN  IF stock_flow_data # <<>>
        THEN LET row == stock_flow_data[1]
                 rule == FiredRule(row.ratio, row.change)
             IN  IF rule = 4
                 THEN [to |-> "updated", rule |-> 4, rec |-> Refreshed(stock, row)]
                 ELSE [to |-> "settled", rule |-> rule,
                       rec |-> SettledStock(stock, row, rule, highest_price)]
        ELSE [to |-> "updated", rule |-> 0, rec |-> CarriedForward(stock, stock_data)]

\* The loop over care_stocks (lines 196-278).
RECURSIVE StepB(_, _, _, _, _)
StepB(care_stocks, main_fund_flow_df, stock_data, settled_stocks, updated_care_stocks) ==
    IF care_stocks = <<>>
    THEN [settled |-> settled_stocks, updated |-> updated_care_stocks]
    ELSE LET e == EvaluateStock(Head(care_stocks), main_fund_flow_df, stock_data)
         IN  IF e.to = "settled"
             THEN StepB(Tail(care_stocks), main_fund_flow_df, stock_data,
                        Append(settled_stocks, e.rec), updated_care_stocks)
             ELSE StepB(Tail(care_stocks), main_fund_flow_df, stock_data,
                        settled_stocks, Append(updated_care_stocks, e.rec))

\* AlreadyWatched without the membership test: the slip the uniqueness
\* property must detect.
AlreadyWatched_Never(updated_care_stocks, stock_code) == FALSE

\* any(stock['code'] == stock_code for stock in updated_care_stocks)
AlreadyWatched(updated_care_stocks, stock_code) ==
    \E i \in 1..Len(updated_care_stocks) : updated_care_stocks[i].code = stock_code

NewStock(stock_code, stock_info, result_df, current_time) ==
    [code |-> stock_code,
     name |-> stock_info[1].name,
     buy_price |-> stock_info[1].price,
     start_time |-> current_time,
     current_price |-> stock_info[1].price,
     main_net_ratio |-> RowsWithCode(result_df, stock_code)[1].ratio,
     today_change |-> RowsWithCode(result_df, stock_code)[1].change]

\* The loop over top_5_stocks (lines 281-304).
RECURSIVE StepC(_, _, _, _, _)
StepC(top5, stock_data, result_df, current_time, updated_care_stocks) ==
    IF top5 = <<>> THEN updated_care_stocks
    ELSE LET stock_code == Head(top5)
             stock_info == RowsWithCode(stock_data, stock_code)
         IN  IF ~AlreadyWatched(updated_care_stocks, stock_code) /\ stock_info # <<>>
             THEN StepC(Tail(top5), stock_data, result_df, current_time,
                        Append(updated_care_stocks,
                               NewStock(stock_code, stock_info, result_df, current_time)))
             ELSE StepC(Tail(top5), stock_data, result_df, current_time,
                        updated_care_stocks)

\* ------------------------------------------------------------ the files

\* A file is absent, holds JSON the program wrote ("ok"), or holds bytes that
\* do not parse ("bad": a write that failed after open(..., 'w') truncated it).
AbsentFile == [st |-> "absent", data |-> <<>>]
BadFile == [st |-> "bad", data |-> <<>>]
OkFile(d) == [st |-> "ok", data |-> d]

\* load_care_stocks: [] when the file is absent or reading it raises.
load_care_stocks(file, read) ==
    IF file.st = "ok" /\ read = "ok" THEN file.data ELSE <<>>

\* load_previous_settlements: [] when the file is absent or reading it raises.
load_previous_settlements(file, read) ==
    IF file.st = "ok" /\ read = "ok" THEN file.data ELSE <<>>

\* A save: the dump succeeds, open() raises (the file is left as it was), or
\* the dump raises after open() truncated the file.  The exception is caught.
SaveFile(file, content, write) ==
    CASE write = "ok" -> OkFile(content)
      [] write = "open_fails" -> file
      [] write = "dump_fails" -> BadFile

save_care_stocks(file, care_stocks, write) == SaveFile(file, care_stocks, write)

save_settlements_to_json(file, settled_stocks, write) ==
    SaveFile(file, settled_stocks, write)

\* The report: its header time and the rows of its two tables.
save_result_report(file, current_time, care_stocks, settled_stocks, write) ==
    SaveFile(file, <<current_time, care_stocks, settled_stocks>>, write)

\* previous_settlements + settled_stocks
all_settled_stocks(previous_settlements, settled_stocks) ==
    previous_settlements \o settled_stocks

\* ------------------------------------------------------- the pipeline

\* is_trading_day failing open: a calendar that could not be fetched counts
\* as a trading day.
is_trading_day_FailOpen(trade_calendar, today) ==
    \/ trade_calendar.kind = "null"
    \/ \E i \in 1..Len(trade_calendar.data) : trade_calendar.data[i] = today

\* is_trading_day: False when the calendar fetch returned None.
is_trading_day(trade_calendar, today) ==
    /\ trade_calendar.kind # "null"
    /\ \E i \in 1..Len(trade_calendar.data) : trade_calendar.data[i] = today

\* SpotMissing without the None check.
SpotMissing_Never(stock_data) == FALSE

\* `if stock_data is None: return`
SpotMissing(stock_data) == stock_data.kind = "null"

\* `if result_df is None or main_fund_flow_df is None: return`
FlowMissing(main_fund_flow) == main_fund_flow.kind = "null"

\* Lines 188-304 for one outcome result_df of the sort.
Analysis(care_stocks, stock_data, main_fund_flow_df, result_df, current_time) ==
    LET top5 == top_5_stocks(result_df)
        b == StepB(care_stocks, main_fund_flow_df, stock_data, <<>>, <<>>)
    IN  [top5 |-> top5,
         settled |-> b.settled,
         retained |-> b.updated,
         updated |-> StepC(top5, stock_data, result_df, current_time, b.updated)]

\* ------------------------------------------------------------- bounds

\* Runs of the program in one behaviour; the run's number is its date and
\* its timestamp.
MaxRuns == 3

\* As many codes as a candidate list holds.
Codes == 1..(TopN + 1)

\* ------------------------------------------------- the environment's data

\* The upstream's behaviour over the attempts of one fetch: every call
\* raises, or every call returns the table.
AllRaise == [i \in 1..DefaultMaxRetries |-> Raise]
AllReturn(table) == [i \in 1..DefaultMaxRetries |-> Data(table)]

\* The upstream of a fetch the run never made.
NotCalled == <<>>

\* The calendar lists today, or only the day before.
CalendarUpstreams(today) ==
    {AllRaise, AllReturn(<<today - 1, today>>), AllReturn(<<today - 1>>)}

\* Prices fall by one a day; the day-high is two above the latest price.
PriceOn(day) == 20 - day

\* A fund-flow row of each kind: a qualifying candidate (kept by rule 4 when
\* watched), and a row rule 1 settles.
FlowRow(kind, c, day) ==
    [code |-> c, name |-> <<"f">>, price |-> PriceOn(day),
     ratio |-> IF kind = "cand" THEN c ELSE -6,
     change |-> -1]

\* Every code is a candidate but at most one, which is absent or sold.
KindMaps ==
    {f \in [Codes -> {"cand", "sell", "absent"}] :
        Cardinality({c \in Codes : f[c] # "cand"}) <= 1}

RECURSIVE FlowTable(_, _, _)
FlowTable(f, day, c) ==
    IF c > TopN + 1 THEN <<>>
    ELSE (IF f[c] = "absent" THEN <<>> ELSE <<FlowRow(f[c], c, day)>>)
         \o FlowTable(f, day, c + 1)

FlowUpstreams(today) ==
    {AllRaise} \cup {AllReturn(FlowTable(f, today, 1)) : f \in KindMaps}

SpotRow(c, day) ==
    [code |-> c, name |-> <<"s">>, price |-> PriceOn(day), high |-> PriceOn(day) + 2]

RECURSIVE SpotTable(_, _, _)
SpotTable(missing, day, c) ==
    IF c > TopN + 1 THEN <<>>
    ELSE (IF c \in missing THEN <<>> ELSE <<SpotRow(c, day)>>)
         \o SpotTable(missing, day, c + 1)

\* The market snapshot lists every code, or every code but one of the first two.
SpotUpstreams(today) ==
    {AllRaise} \cup {AllReturn(SpotTable(missing, today, 1)) :
                        missing \in {{}, {1}, {2}}}

\* The outcome of each read and write of one run.
IoPlans ==
    [careRead : {"ok", "raises"}, ledgerRead : {"ok", "raises"},
     careWrite : {"ok", "open_fails", "dump_fails"},
     ledgerWrite : {"ok", "open_fails", "dump_fails"},
     reportWrite : {"ok", "open_fails", "dump_fails"}]

NoIoFault ==
    [careRead |-> "ok", ledgerRead |-> "ok", careWrite |-> "ok",
     ledgerWrite |-> "ok", reportWrite |-> "ok"]

B2N(b) == IF b THEN 1 ELSE 0

IoCost(io) ==
    B2N(io.careRead # "ok") + B2N(io.ledgerRead # "ok")
    + B2N(io.careWrite # "ok") + B2N(io.ledgerWrite # "ok")
    + B2N(io.reportWrite # "ok")

SingleFaultPlans == {io \in IoPlans : IoCost(io) <= 1}

\* At most one read or write of a behaviour raises.
IoChoices == IF ioFaulted THEN {NoIoFault} ELSE SingleFaultPlans

\* -------------------------------------------------------------- actions

IdleLog == [outcome |-> "idle"]
NoProbe == [phase |-> "off"]

Init ==
    /\ careFile = AbsentFile
    /\ ledgerFile = AbsentFile
    /\ reportFile = AbsentFile
    /\ clock = 0
    /\ ioFaulted = FALSE
    /\ log = IdleLog
    /\ fetch = NoProbe
    /\ eval = NoProbe
    /\ select = NoProbe

\* What a run that returns before the saves leaves in the log.
EarlyLog(outcome, today, calUp, spotUp, flowUp, calls, loaded) ==
    [outcome |-> outcome, today |-> today, calUp |-> calUp, spotUp |-> spotUp,
     flowUp |-> flowUp, spot |-> <<>>, flow |-> <<>>,
     calls |-> calls, loaded |-> loaded, previous |-> <<>>,
     result_df |-> <<>>, top5 |-> <<>>, settled |-> <<>>, retained |-> <<>>,
     updated |-> <<>>, io |-> NoIoFault]

EarlyReturn(outcome, today, calUp, spotUp, flowUp, calls, loaded) ==
    /\ UNCHANGED <<careFile, ledgerFile, reportFile, ioFaulted>>
    /\ log' = EarlyLog(outcome, today, calUp, spotUp, flowUp, calls, loaded)

\* Lines 306-315: the ledger is read, and the three files are saved.
Persist(today, calUp, spotUp, flowUp, calls, care_stocks, careRead, a, result_df) ==
    \E io \in {i \in IoChoices : i.careRead = careRead} :
       LET previous == load_previous_settlements(ledgerFile, io.ledgerRead)
           merged == all_settled_stocks(previous, a.settled)
       IN  /\ careFile' = save_care_stocks(careFile, a.updated, io.careWrite)
           /\ ledgerFile' = save_settlements_to_json(ledgerFile, merged,
                                                     io.ledgerWrite)
           /\ reportFile' = save_result_report(reportFile, today, a.updated,
                                               merged, io.reportWrite)
           /\ ioFaulted' = (ioFaulted \/ IoCost(io) > 0)
           /\ log' = [outcome |-> "done", today |-> today, calUp |-> calUp,
                      spotUp |-> spotUp, flowUp |-> flowUp,
                      spot |-> spotUp[1].data, flow |-> flowUp[1].data,
                      calls |-> calls, loaded |-> care_stocks,
                      previous |-> previous, result_df |-> result_df,
                      top5 |-> a.top5, settled |-> a.settled,
                      retained |-> a.retained, updated |-> a.updated, io |-> io]

\* Lines 181-304: the fund-flow fetch, its check, and the analysis.
WithFlow(today, calUp, calF, spotUp, spotF, care_stocks, careRead) ==
    \E flowUp \in FlowUpstreams(today) :
       LET flowF == fetch_data_by_ak("main_fund_flow", DefaultMaxRetries,
                                     DefaultRetryDelay, flowUp)
           calls == [cal |-> calF.calls, spot |-> spotF.calls, flow |-> flowF.calls]
       IN  IF FlowMissing(flowF.result)
           THEN EarlyReturn("no_flow", today, calUp, spotUp, flowUp, calls,
                            care_stocks)
           ELSE \E result_df \in get_main_fund_flow(flowF.result.data) :
                   Persist(today, calUp, spotUp, flowUp, calls, care_stocks, careRead,
                           Analysis(care_stocks, spotF.result.data,
                                    flowF.result.data, result_df, today),
                           result_df)

\* Lines 171-179: the watch list is loaded, then the spot fetch and its check.
WithSpot(today, calUp, calF) ==
    \E careRead \in {io.careRead : io \in IoChoices} :
    \E spotUp \in SpotUpstreams(today) :
       LET care_stocks == load_care_stocks(careFile, careRead)
           spotF == fetch_data_by_ak("stock_spot", DefaultMaxRetries,
                                     DefaultRetryDelay, spotUp)
       IN  IF SpotMissing(spotF.result)
           THEN EarlyReturn("no_spot", today, calUp, spotUp, NotCalled,
                            [cal |-> calF.calls, spot |-> spotF.calls, flow |-> 0],
                            care_stocks)
           ELSE WithFlow(today, calUp, calF, spotUp, spotF, care_stocks, careRead)

\* One run of the program: the construction of StockAnalyzer and
\* analyze_stocks, from the calendar fetch to the three saves.
Main ==
    /\ log.outcome = "idle"
    /\ clock < MaxRuns
    /\ clock' = clock + 1
    /\ UNCHANGED <<fetch, eval, select>>
    /\ \E calUp \in CalendarUpstreams(clock + 1) :
          LET today == clock + 1
              calF == fetch_data_by_ak("trade_calendar", DefaultMaxRetries,
                                       DefaultRetryDelay, calUp)
          IN  IF ~is_trading_day(calF.result, today)
              THEN EarlyReturn("not_trading", today, calUp, NotCalled, NotCalled,
                               [cal |-> calF.calls, spot |-> 0, flow |-> 0], <<>>)
              ELSE WithSpot(today, calUp, calF)

\* The process exits: what it held in memory is gone, the files stay.
Exit ==
    /\ log.outcome # "idle"
    /\ log' = IdleLog
    /\ UNCHANGED <<careFile, ledgerFile, reportFile, clock, ioFaulted, fetch, eval, select>>

Next == Main \/ Exit

Spec == Init /\ [][Next]_vars

\* ------------------------------------------- what the environment did

\* Every attempt of a fetch that was made failed.
AllAttemptsFail(up) ==
    /\ up # NotCalled
    /\ \A i \in 1..DefaultMaxRetries : AttemptFails(up[i])

\* Some attempt of the calendar fetch returned a calendar that lists today.
TodayListed(up, today) ==
    \E i \in 1..DefaultMaxRetries :
       /\ up[i].kind = "data"
       /\ \E j \in 1..Len(up[i].data) : up[i].data[j] = today

\* A step that is one run of the program.
IsRun == log.outcome = "idle" /\ log'.outcome # "idle"

FilesUnchanged ==
    /\ careFile' = careFile
    /\ ledgerFile' = ledgerFile
    /\ reportFile' = reportFile

\* The records a ledger file holds.
LedgerRecords(file) == IF file.st = "ok" THEN file.data ELSE <<>>

CodeIn(rows, code) == \E i \in 1..Len(rows) : rows[i].code = code

\* ------------------------------------------------------------ the claims

\* C1: the ledger is append-only across runs: after every run the records
\* persisted before it are a prefix of the persisted ledger, unchanged and in
\* order, followed by exactly the records the run settled; also when the run
\* could not read the ledger file.  It is stated for the runs whose write of
\* the ledger, if they make one, succeeds.
C1_LedgerAppendOnly ==
    [][(IsRun /\ log'.io.ledgerWrite = "ok")
        => LedgerRecords(ledgerFile')
               = LedgerRecords(ledgerFile) \o log'.settled]_vars

\* C2: no two entries of a watch list written by save_care_stocks have the
\* same code.
C2_UniqueCodes ==
    careFile.st = "ok" =>
        \A i, j \in 1..Len(careFile.data) :
            careFile.data[i].code = careFile.data[j].code => i = j

\* A run added a new entry while a code of its candidate list was already
\* watched, and the list was written.
C2_Witness ==
    /\ log.outcome = "done"
    /\ careFile = OkFile(log.updated)
    /\ Len(log.updated) > Len(log.retained)
    /\ \E k \in 1..Len(log.top5) : CodeIn(log.retained, log.top5[k])

\* C3: when today is not in the fetched calendar, or the calendar fetch failed
\* on every attempt, the run fetches neither the spot quotes nor the fund
\* flow, leaves the three files as they were, and returns at the gate.
C3_NonTradingDay ==
    [][(IsRun /\ (AllAttemptsFail(log'.calUp)
                  \/ ~TodayListed(log'.calUp, log'.today)))
        => /\ log'.outcome = "not_trading"
           /\ log'.calls.spot = 0
           /\ log'.calls.flow = 0
           /\ FilesUnchanged]_vars

\* The calendar fetch failed in a run that had a watch list and a ledger with
\* records to lose.
C3_Witness ==
    /\ log.outcome = "not_trading"
    /\ AllAttemptsFail(log.calUp)
    /\ log.calls.cal = DefaultMaxRetries
    /\ careFile.st = "ok" /\ careFile.data # <<>>
    /\ ledgerFile.st = "ok" /\ ledgerFile.data # <<>>

\* C4: on a trading day, when the spot fetch or the fund-flow fetch fails on
\* all 3 attempts, the run returns before any save: the three files are as
\* they were.
C4_FetchFailureAborts ==
    [][(IsRun /\ TodayListed(log'.calUp, log'.today)
              /\ (AllAttemptsFail(log'.spotUp) \/ AllAttemptsFail(log'.flowUp)))
        => /\ log'.outcome \in {"no_spot", "no_flow"}
           /\ FilesUnchanged]_vars

\* The fund-flow fetch failed, after a spot fetch that succeeded, in a run that
\* had loaded a watch list.
C4_Witness ==
    /\ log.outcome = "no_flow"
    /\ AllAttemptsFail(log.flowUp)
    /\ log.calls = [cal |-> 1, spot |-> 1, flow |-> DefaultMaxRetries]
    /\ log.loaded # <<>>
    /\ ledgerFile.st = "ok" /\ ledgerFile.data # <<>>

\* C9: an entry whose code is not in the fund-flow table is in the updated
\* watch list with every field as loaded, whether or not the market snapshot
\* lists the code, and is not settled in the run.
C9_CarriedForward ==
    log.outcome = "done" =>
        \A i \in 1..Len(log.loaded) :
            ~CodeIn(log.flow, log.loaded[i].code) =>
                /\ \E j \in 1..Len(log.updated) : log.updated[j] = log.loaded[i]
                /\ \A j \in 1..Len(log.updated) :
                       log.updated[j].code = log.loaded[i].code
                           => log.updated[j] = log.loaded[i]
                /\ ~CodeIn(log.settled, log.loaded[i].code)
                /\ log.io.careWrite = "ok" =>
                       \E j \in 1..Len(careFile.data) :
                           careFile.data[j] = log.loaded[i]

\* An entry absent from the fund-flow table was carried forward although the
\* snapshot lists its code at another price than the entry's.
C9_Witness ==
    /\ log.outcome = "done"
    /\ \E i \in 1..Len(log.loaded) :
          /\ ~CodeIn(log.flow, log.loaded[i].code)
          /\ \E k \in 1..Len(log.spot) :
                /\ log.spot[k].code = log.loaded[i].code
                /\ log.spot[k].price # log.loaded[i].current_price
          /\ \E j \in 1..Len(log.updated) : log.updated[j] = log.loaded[i]

\* The entries of rows with this code, buy price and start time.
Matches(rows, e) ==
    {j \in 1..Len(rows) : /\ rows[j].code = e.code
                          /\ rows[j].buy_price = e.buy_price
                          /\ rows[j].start_time = e.start_time}

\* C10: in a run that reaches the saves, each loaded entry is accounted for
\* exactly once, with its code, buy price and start time: as one entry of the
\* updated watch list or as one new settlement; settlements plus retained
\* entries are as many as the loaded entries.
C10_Conservation ==
    log.outcome = "done" =>
        LET n == Len(log.loaded) - Len(log.settled)
            kept == SubSeq(log.updated, 1, n)
            added == SubSeq(log.updated, n + 1, Len(log.updated))
        IN  /\ n >= 0
            /\ n <= Len(log.updated)
            /\ \A i \in 1..Len(log.loaded) :
                   /\ Cardinality(Matches(kept, log.loaded[i]))
                        + Cardinality(Matches(log.settled, log.loaded[i])) = 1
                   /\ Matches(added, log.loaded[i]) = {}
            /\ \A j \in 1..Len(added) : added[j].start_time = log.today

\* A run settled one entry, kept another and added a third.
C10_Witness ==
    /\ log.outcome = "done"
    /\ Len(log.settled) >= 1
    /\ Len(log.retained) >= 1
    /\ Len(log.updated) > Len(log.retained)

\* ------------------------------------- the fetch wrapper on its own

\* The largest max_retries a call is made with.
MaxRetriesArg == 3

FetchMethods == SupportedMethods \cup {"stock_zt_pool_em"}
FetchDelays == {0, DefaultRetryDelay}
FetchOutcomes == {Raise, ReturnsNone, Data(<<"a">>), Data(<<"b">>)}

\* A call of fetch_data_by_ak, and what the upstream does at each attempt.
InitFetch ==
    /\ fetch \in [phase : {"call"}, method_name : FetchMethods,
                  max_retries : 0..MaxRetriesArg, retry_delay : FetchDelays,
                  upstream : [1..(MaxRetriesArg + 1) -> FetchOutcomes]]
    /\ careFile = AbsentFile /\ ledgerFile = AbsentFile /\ reportFile = AbsentFile
    /\ clock = 0 /\ ioFaulted = FALSE /\ log = IdleLog
    /\ eval = NoProbe /\ select = NoProbe

FetchCall ==
    /\ fetch.phase = "call"
    /\ fetch' = [phase |-> "returned", method_name |-> fetch.method_name,
                 max_retries |-> fetch.max_retries,
                 retry_delay |-> fetch.retry_delay, upstream |-> fetch.upstream,
                 out |-> fetch_data_by_ak(fetch.method_name, fetch.max_retries,
                                          fetch.retry_delay, fetch.upstream)]
    /\ UNCHANGED <<careFile, ledgerFile, reportFile, clock, ioFaulted, log, eval, select>>

SpecFetch == InitFetch /\ [][FetchCall]_vars

Min(S) == CHOOSE x \in S : \A y \in S : x <= y

\* C5: fetch_data_by_ak makes at most max_retries attempts; it returns the
\* data of the first attempt that succeeds and makes no attempt after it; it
\* sleeps retry_delay after each failed attempt that a retry follows; and it
\* returns null exactly when all max_retries attempts failed or the method
\* is not supported.
C5_FetchRetries ==
    fetch.phase = "returned" =>
        LET n == fetch.max_retries
            up == fetch.upstream
            out == fetch.out
            supported == fetch.method_name \in SupportedMethods
            good == {i \in 1..n : up[i].kind = "data"}
        IN  /\ out.calls <= n
            /\ IF supported /\ good # {}
               THEN /\ out.result.kind = "data"
                    /\ out.result = up[Min(good)]
                    /\ out.calls = Min(good)
                    /\ out.slept = (Min(good) - 1) * fetch.retry_delay
               ELSE /\ out.result.kind = "null"
                    /\ out.calls = (IF supported THEN n ELSE 0)
                    /\ out.slept = (IF supported /\ n > 0
                                    THEN (n - 1) * fetch.retry_delay ELSE 0)

\* The third and last attempt succeeded, after one that raised and one that
\* returned None, and a fourth would have returned other data.
C5_Witness ==
    /\ fetch.phase = "returned"
    /\ fetch.max_retries = 3
    /\ fetch.retry_delay = DefaultRetryDelay
    /\ fetch.upstream[1].kind = "raise"
    /\ fetch.upstream[2].kind = "none"
    /\ fetch.out.result = Data(<<"a">>)
    /\ fetch.upstream[4] = Data(<<"b">>)
    /\ fetch.out.calls = 3
    /\ fetch.out.slept = 2 * DefaultRetryDelay

\* --------------------------------------- the settlement rules on their own

RuleRatios == {NaN, -6, -5, -1, 0, 1}
RuleChanges == {NaN, -1, 0, 1, 10, 11}
RulePrices == {NaN, 8, 11}
BuyPrices == {9, 10}
DayHighs == {NaN, 0, 9, 10, 11}

WatchedStock(buy) ==
    [code |-> 1, name |-> <<"w">>, buy_price |-> buy, start_time |-> 0,
     current_price |-> 9, main_net_ratio |-> 1, today_change |-> -1]

\* The fund-flow table: a row of another code, then at most one of the code.
RuleFlows ==
    LET other == [code |-> 2, name |-> <<"o">>, price |-> 5, ratio |-> -9, change |-> 12]
    IN  {<<other>>} \cup
        {<<other, [code |-> 1, name |-> <<"f">>, price |-> p, ratio |-> r, change |-> ch]>> :
            p \in RulePrices, r \in RuleRatios, ch \in RuleChanges}

\* The market snapshot: a row of another code, then at most one of the code.
RuleSpots ==
    LET other == [code |-> 2, name |-> <<"o">>, price |-> 5, high |-> 30]
    IN  {<<other>>} \cup
        {<<other, [code |-> 1, name |-> <<"s">>, price |-> 9, high |-> h]>> :
            h \in DayHighs}

\* One watched entry, and the two tables it is evaluated against.
InitRules ==
    /\ eval \in [phase : {"loaded"}, stock : {WatchedStock(b) : b \in BuyPrices},
                 flow : RuleFlows, spot : RuleSpots]
    /\ careFile = AbsentFile /\ ledgerFile = AbsentFile /\ reportFile = AbsentFile
    /\ clock = 0 /\ ioFaulted = FALSE /\ log = IdleLog
    /\ fetch = NoProbe /\ select = NoProbe

Evaluate ==
    /\ eval.phase = "loaded"
    /\ eval' = [phase |-> "evaluated", stock |-> eval.stock, flow |-> eval.flow,
                spot |-> eval.spot,
                out |-> EvaluateStock(eval.stock, eval.flow, eval.spot)]
    /\ UNCHANGED <<careFile, ledgerFile, reportFile, clock, ioFaulted, log, fetch, select>>

SpecRules == InitRules /\ [][Evaluate]_vars

\* The entry was found in the fund-flow table.
EvalFound == eval.phase = "evaluated" /\ Len(eval.flow) = 2

\* The day-high is known and above the buy price.
HighAboveCost ==
    /\ Len(eval.spot) = 2
    /\ eval.spot[2].high # NaN
    /\ eval.spot[2].high > eval.stock.buy_price

PlainProfit == Sub(eval.flow[2].price, eval.stock.buy_price)

\* C6: the rules are tried in the order 1, 2, 3, 4 and the first that matches
\* decides: an entry found in the fund-flow table gets exactly the outcome of
\* that rule, so an entry that meets rule 1 and also rule 2 or rule 3 is
\* settled with rule 1's profit and remark.
C6_RuleOrder ==
    EvalFound =>
        LET r == eval.flow[2].ratio
            ch == eval.flow[2].change
            c1 == r # NaN /\ r < -5
            c2 == ch # NaN /\ ch > 10
            c3 == ch # NaN /\ ch > 0 /\ r # NaN /\ r < 0
            out == eval.out
        IN  /\ c1 => /\ out.to = "settled"
                     /\ out.rec.remark = <<"ratio below -5, sell", r>>
                     /\ out.rec.profit_loss
                            = (IF HighAboveCost THEN 0 ELSE PlainProfit)
            /\ (~c1 /\ c2) => /\ out.to = "settled"
                              /\ out.rec.remark = <<"change above 10, sell", r>>
            /\ (~c1 /\ ~c2 /\ c3) =>
                   /\ out.to = "settled"
                   /\ out.rec.remark
                          = <<"change above 0 and ratio below 0, sell", r, r>>
            /\ (~c1 /\ ~c2 /\ ~c3) =>
                   /\ out.to = "updated"
                   /\ out.rec = [eval.stock EXCEPT
                                    !.current_price = eval.flow[2].price,
                                    !.main_net_ratio = r,
                                    !.today_change = ch,
                                    !.name = eval.flow[2].name]

\* An entry that meets rules 1, 2 and 3 at once, whose day-high was above
\* cost, was settled by rule 1 at break-even.
C6_Witness ==
    /\ EvalFound
    /\ eval.flow[2].ratio = -6
    /\ eval.flow[2].change = 11
    /\ HighAboveCost
    /\ PlainProfit # 0 /\ PlainProfit # NaN
    /\ eval.out.to = "settled"
    /\ eval.out.rec.remark[1] = "ratio below -5, sell"
    /\ eval.out.rec.profit_loss = 0

\* C7: a settlement by rule 1 or rule 3 has profit_loss 0 when the day-high is
\* known and above the buy price, and current price minus buy price
\* otherwise; a settlement by rule 2 has current price minus buy price
\* whatever the day-high.
C7_BreakEven ==
    (EvalFound /\ eval.out.to = "settled") =>
        LET by == eval.out.rec.remark[1]
        IN  /\ by \in {"ratio below -5, sell",
                       "change above 0 and ratio below 0, sell"}
                => eval.out.rec.profit_loss
                       = (IF HighAboveCost THEN 0 ELSE PlainProfit)
            /\ by = "change above 10, sell"
                => eval.out.rec.profit_loss = PlainProfit

\* Rule 3 settled at break-even an entry whose day-high was above cost and
\* whose current price was below it.
C7_Witness ==
    /\ EvalFound
    /\ eval.out.to = "settled"
    /\ eval.out.rec.remark[1] = "change above 0 and ratio below 0, sell"
    /\ HighAboveCost
    /\ eval.flow[2].price = 8
    /\ eval.out.rec.profit_loss = 0

\* ----------------------------------- candidate selection on its own

\* Rows of a fund-flow table.
MaxRows == 7

\* A name for each row: plain, missing, lower-case "st", "S" and "T" apart.
QualName(i) ==
    CASE i % 4 = 0 -> <<"a">>
      [] i % 4 = 1 -> NanName
      [] i % 4 = 2 -> <<"s", "t">>
      [] i % 4 = 3 -> <<"S", "a", "T">>

QualRow(i, ratio) ==
    [code |-> i, name |-> QualName(i), price |-> 10, ratio |-> ratio, change |-> -1]

\* A row that one condition of the mask rejects, another for each row.
AltRow(i) ==
    CASE i % 8 = 1 -> [QualRow(i, 9) EXCEPT !.price = NaN]
      [] i % 8 = 2 -> [QualRow(i, 9) EXCEPT !.ratio = 0]
      [] i % 8 = 3 -> [QualRow(i, 9) EXCEPT !.name = <<"S", "T">>]
      [] i % 8 = 4 -> [QualRow(i, 9) EXCEPT !.change = 0]
      [] i % 8 = 5 -> [QualRow(i, 9) EXCEPT !.ratio = NaN]
      [] i % 8 = 6 -> [QualRow(i, 9) EXCEPT !.name = <<"*", "S", "T", "a">>]
      [] i % 8 = 7 -> [QualRow(i, 9) EXCEPT !.change = NaN]
      [] i % 8 = 0 -> [QualRow(i, 9) EXCEPT !.change = 2]

\* Row i qualifies with ratio i or i + 1 (so neighbours can tie), or is
\* rejected.
SelectRow(i, kind) ==
    CASE kind = "lo" -> QualRow(i, i)
      [] kind = "hi" -> QualRow(i, i + 1)
      [] kind = "alt" -> AltRow(i)

SelectTables ==
    UNION {{[i \in 1..n |-> SelectRow(i, kinds[i])] :
               kinds \in [1..n -> {"lo", "hi", "alt"}]} : n \in 0..MaxRows}

InitSelect ==
    /\ select \in [phase : {"fetched"}, df : SelectTables]
    /\ careFile = AbsentFile /\ ledgerFile = AbsentFile /\ reportFile = AbsentFile
    /\ clock = 0 /\ ioFaulted = FALSE /\ log = IdleLog
    /\ fetch = NoProbe /\ eval = NoProbe

\* get_main_fund_flow on the table, and the candidate list taken from it.
Select ==
    /\ select.phase = "fetched"
    /\ \E result_df \in get_main_fund_flow(select.df) :
          select' = [phase |-> "selected", df |-> select.df,
                     result_df |-> result_df, top5 |-> top_5_stocks(result_df)]
    /\ UNCHANGED <<careFile, ledgerFile, reportFile, clock, ioFaulted, log, fetch, eval>>

SpecSelect == InitSelect /\ [][Select]_vars

\* The rows of the table that meet the four conditions (a row's code is its
\* index).
QualifyingRows(df) ==
    {i \in 1..Len(df) : /\ df[i].price # NaN
                        /\ df[i].ratio # NaN /\ df[i].ratio > 0
                        /\ ~ContainsST(df[i].name)
                        /\ df[i].change # NaN /\ df[i].change < 0}

\* C8: the rows that qualify are exactly those with a latest price, a ratio
\* above 0, no "ST" in the name and a change below 0; the candidate list is
\* empty when fewer than 5 rows qualify, and is otherwise the codes of the 5
\* qualifying rows of highest ratio, in descending order of ratio.
C8_Candidates ==
    select.phase = "selected" =>
        LET df == select.df
            Q == QualifyingRows(df)
            top == select.top5
            chosen == {top[k] : k \in 1..Len(top)}
        IN  /\ {select.result_df[k].code : k \in 1..Len(select.result_df)} = Q
            /\ Len(select.result_df) = Cardinality(Q)
            /\ Cardinality(Q) < TopN => top = <<>>
            /\ Cardinality(Q) >= TopN =>
                   /\ Len(top) = TopN
                   /\ Cardinality(chosen) = TopN
                   /\ chosen \subseteq Q
                   /\ \A k \in 1..(TopN - 1) : df[top[k]].ratio >= df[top[k + 1]].ratio
                   /\ \A j \in Q \ chosen : df[j].ratio <= df[top[TopN]].ratio

\* Five candidates were taken from six or more qualifying rows, the fifth
\* tying with the sixth, in a table that also had rejected rows.
C8_Witness ==
    /\ select.phase = "selected"
    /\ Len(select.top5) = TopN
    /\ Len(select.result_df) > TopN
    /\ Len(select.df) > Len(select.result_df)
    /\ select.result_df[TopN].ratio = select.result_df[TopN + 1].ratio

====
